---- MODULE Spec2Model ----
(***************************************************************************)
(* Model of dinossauro.py: the connection handle, the name index query,    *)
(* the hydration pipeline (aggregate + record shaping), the sidebar        *)
(* selector and main.                                                      *)
(*                                                                         *)
(* Representation of Python / BSON values                                  *)
(*   str            a TLA+ string, except identifier strings, which are    *)
(*                  sequences of one-character strings so that ObjectId()  *)
(*                  can inspect them                                       *)
(*   None           NoneStr in a slot that otherwise holds a string,       *)
(*                  [kind |-> "None"] as a return value                    *)
(*   ObjectId       the sequence of its 12 bytes                           *)
(*   document/dict  a function from field names to values; a field the     *)
(*                  document does not have is not in its DOMAIN            *)
(*   number         [t |-> "int" | "double" | "null", v |-> n]             *)
(*   collection     the sequence of its documents in natural order         *)
(***************************************************************************)
EXTENDS Integers, Sequences, FiniteSets, TLC

VARIABLES
    dinossauros,   \* collection db.dinossauros
    fosseis,       \* collection db.fosseis
    reachable,     \* TRUE while the MongoDB server answers
    db,            \* module global db: "unset", "None" or "handle"
    pc,            \* position of the script run: "start", "called", "selected", "geocoding", "rendered", "stopped", "crashed"
    dinosaur,      \* main's dinosaur: what get_dinosaur_by_id returned to it
    page,          \* what main drew after line 248: the bar chart, the geocoding so far and the map
    dinosaur_id,   \* main's local dinosaur_id (an identifier string, <<>> before it is set)
    selector,      \* what create_dinosaur_selector computed in this run
    last,          \* the last call of get_dinosaur_names / get_dinosaur_by_id and its outcome
    screen         \* messages st.error / st.info / st.warning put on the page in this run

vars == <<dinossauros, fosseis, reachable, db, pc, page, dinosaur_id, dinosaur, selector, last, screen>>

----------------------------------------------------------------------------
(* Bounds of the model *)

MaxDinos == 2
MaxFossils == 2

----------------------------------------------------------------------------
(* Python values *)

NoneStr == "None"
Desconhecido == "Desconhecido"
EmptyDict == <<>>

\* dict.get(key, default)
Get(doc, key, default) == IF key \in DOMAIN doc THEN doc[key] ELSE default

RetNone == [kind |-> "None"]
RetDict(d) == [kind |-> "dict", dict |-> d]
RetList(l) == [kind |-> "list", list |-> l]
Raise(e) == [kind |-> "raise", exc |-> e]

RECURSIVE Flatten(_)
Flatten(ss) == IF ss = <<>> THEN <<>> ELSE Head(ss) \o Flatten(Tail(ss))

----------------------------------------------------------------------------
(* bson.ObjectId: parse from a string, convert back to a string *)

OidHexLen == 24

HexChars == <<"0", "1", "2", "3", "4", "5", "6", "7", "8", "9", "a", "b", "c", "d", "e", "f">>

ToLower(c) ==
    CASE c = "A" -> "a" [] c = "B" -> "b" [] c = "C" -> "c"
      [] c = "D" -> "d" [] c = "E" -> "e" [] c = "F" -> "f"
      [] OTHER -> c

IsHex(c) == \E i \in 1..Len(HexChars) : HexChars[i] = ToLower(c)

HexVal(c) == (CHOOSE i \in 1..Len(HexChars) : HexChars[i] = ToLower(c)) - 1

\* ASCII vertical tab (0x0b), which has no escape in a TLA+ string
VT == ""

\* ASCII white space
IsSpace(c) == c \in {" ", "\t", "\n", "\r", VT, "\f"}

\* bytes.fromhex: white space before a byte is skipped, then two digits, of
\* either case, make one byte; anything else raises ValueError (ok = FALSE)
RECURSIVE FromHex(_)
FromHex(s) ==
    IF Len(s) = 0 THEN [ok |-> TRUE, bytes |-> <<>>]
    ELSE IF IsSpace(s[1]) THEN FromHex(Tail(s))
    ELSE IF Len(s) >= 2 /\ IsHex(s[1]) /\ IsHex(s[2])
         THEN LET rest == FromHex(Tail(Tail(s)))
              IN  [ok |-> rest.ok,
                   bytes |-> <<16 * HexVal(s[1]) + HexVal(s[2])>> \o rest.bytes]
         ELSE [ok |-> FALSE, bytes |-> <<>>]

\* ObjectId(s) raises InvalidId unless s has 24 characters and bytes.fromhex
\* accepts it. With white space among the 24 characters it is accepted and holds
\* fewer than 12 bytes.
ObjectIdValid(s) == Len(s) = OidHexLen /\ FromHex(s).ok

\* the bytes of ObjectId(s)
ObjectId(s) == FromHex(s).bytes

\* str(oid): binascii.hexlify, always lower case
OidStr(oid) ==
    [i \in 1..(2 * Len(oid)) |->
        IF i % 2 = 1 THEN HexChars[(oid[(i + 1) \div 2] \div 16) + 1]
                     ELSE HexChars[(oid[i \div 2] % 16) + 1]]

----------------------------------------------------------------------------
(* Identifiers used in the model *)

Zeros(n) == [i \in 1..n |-> "0"]

\* a 24 character string ending in the given characters
Pad(tail) == Zeros(OidHexLen - Len(tail)) \o tail

\* the n-th ObjectId of the model
Oid(n) == ObjectId(Pad(<<HexChars[(n \div 16) + 1], HexChars[(n % 16) + 1]>>))

NotAnId == <<"n", "o", "t", "-", "a", "n", "-", "i", "d">>

\* the identifier strings callers supply
IdStrings ==
    { Pad(<<"0", "a">>), Pad(<<"0", "A">>), Pad(<<"0", "b">>), Pad(<<"0", "B">>),
      Pad(<<"0", "0">>), Pad(<<"f", "F">>), Pad(<<"0", "g">>), Pad(<<"-", "1">>),
      NotAnId, <<>>, Zeros(OidHexLen + 1), Zeros(OidHexLen - 1),
      Pad(<<"0", "a", " ", " ">>), Pad(<<"\t", "\n">>), Pad(<<VT, VT>>), Pad(<<"0", VT>>), Pad(<<"0", " ">>), Pad(<<" ", "0">>),
      [i \in 1..OidHexLen |-> IF i % 3 = 0 THEN " " ELSE "0"],
      [i \in 1..OidHexLen |-> " "] }

----------------------------------------------------------------------------
(* BSON numbers and dates *)

Int32(n) == [t |-> "int", v |-> n]
Double(n) == [t |-> "double", v |-> n]
NullNum == [t |-> "null", v |-> 0]

\* float(x): an int or a double becomes a double; float(None) raises TypeError
FloatOk(x) == x.t \in {"int", "double"}
Float(x) == Double(x.v)

Date(y, m, d) == [t |-> "date", y |-> y, m |-> m, d |-> d]
NullDate == [t |-> "null"]

Digits2(n) == ToString(n \div 10) \o ToString(n % 10)

\* datetime.strftime('%Y-%m-%d'): month and day have two digits, the year is
\* written without leading zeros
Strftime(d) == ToString(d.y) \o "-" \o Digits2(d.m) \o "-" \o Digits2(d.d)

----------------------------------------------------------------------------
(* The collections the scenario keeps fixed *)

Dangling == Oid(0)

tipos_alimentacao ==
    << ("_id" :> Oid(1)) @@ ("nome_dieta" :> "Carnívoro"),
       ("_id" :> Oid(2)) @@ ("nome_dieta" :> "Herbívoro") >>

periodos_geologicos ==
    << ("_id" :> Oid(1)) @@ ("nome_periodo" :> "Jurássico") @@ ("ma_inicio" :> Int32(201))
         @@ ("ma_fim" :> Int32(145)) @@ ("clima" :> "Quente e úmido") >>

localizacoes ==
    << ("_id" :> Oid(1)) @@ ("cidade" :> "Uberaba") @@ ("estado" :> "MG") @@ ("pais" :> "Brasil") >>

descobridores ==
    << ("_id" :> Oid(1)) @@ ("nome_descobridor" :> "Llewellyn Price") >>

museus ==
    << ("_id" :> Oid(1)) @@ ("nome_museu" :> "Museu dos Dinossauros")
         @@ ("cidade_museu" :> "Uberaba") @@ ("pais_museu" :> "Brasil") >>

DinoOid(i) == Oid(9 + i)
FossilOid(j) == Oid(32 + j)

\* bones of the first and of the second fossil, interleaved in natural order
ossos ==
    << ("_id" :> Oid(1)) @@ ("id_fossil" :> FossilOid(1)) @@ ("nome_parte" :> "Fêmur"),
       ("_id" :> Oid(2)) @@ ("id_fossil" :> FossilOid(2)) @@ ("nome_parte" :> "Vértebra"),
       ("_id" :> Oid(3)) @@ ("id_fossil" :> FossilOid(1)) @@ ("nome_parte" :> "Crânio") >>

----------------------------------------------------------------------------
(* The documents Init draws the two variable collections from *)

\* a reference field: absent, pointing at the document Oid(1), or dangling
RefKinds == {"absent", "valid", "dangling"}

Ref(field, kind) ==
    CASE kind = "absent" -> EmptyDict
      [] kind = "valid" -> (field :> Oid(1))
      [] kind = "dangling" -> (field :> Dangling)

Opt(field, present, value) == IF present THEN (field :> value) ELSE EmptyDict

\* the popular names of the model, in ascending string order
Names == <<"Alossauro", "Desconhecido", "Rex">>

NameChoices == {"absent"} \cup {Names[i] : i \in 1..Len(Names)}

PesoChoices == {"absent"} \cup {"null", "int", "double"}

PesoField(choice) ==
    CASE choice = "absent" -> EmptyDict
      [] choice = "null" -> ("peso_medio_kg" :> NullNum)
      [] choice = "int" -> ("peso_medio_kg" :> Int32(7000))
      [] choice = "double" -> ("peso_medio_kg" :> Double(7000))

DinoDoc(i, name, peso, dieta, periodo) ==
    ("_id" :> DinoOid(i))
      @@ Opt("nome_popular", name # "absent", name)
      @@ ("nome_cientifico" :> "Dinosaurus exemplum")
      @@ ("altura_media_m" :> Int32(4))
      @@ PesoField(peso)
      @@ Opt("imagem", i % 2 = 0, "https://example.org/dino.png")
      @@ Ref("id_dieta", dieta)
      @@ Ref("id_periodo", periodo)

\* which of the three references of a fossil (location, discoverer, museum) are
\* absent, valid or dangling, and what is stored as its discovery date
FossilProfiles ==
    { <<"valid", "valid", "valid", "date">>,
      <<"absent", "valid", "dangling", "early">>,
      <<"dangling", "absent", "valid", "absent">>,
      <<"valid", "dangling", "absent", "null">> }

DateField(choice) ==
    CASE choice = "absent" -> EmptyDict
      [] choice = "null" -> ("data_descoberta" :> NullDate)
      [] choice = "date" -> ("data_descoberta" :> Date(2001, 5, 3))
      [] choice = "early" -> ("data_descoberta" :> Date(999, 7, 4))

FossilDoc(j, owner, p) ==
    ("_id" :> FossilOid(j))
      @@ ("codigo" :> ("F" \o ToString(j)))
      @@ DateField(p[4])
      @@ ("id_dinossauro" :> DinoOid(owner))
      @@ Ref("id_localizacao_descoberta", p[1])
      @@ Ref("id_descobridor", p[2])
      @@ Ref("id_museu", p[3])

StdFossils ==
    << FossilDoc(1, 1, <<"valid", "valid", "valid", "date">>),
       FossilDoc(2, 2, <<"valid", "valid", "valid", "date">>) >>

GoodDino(i, name) == DinoDoc(i, name, "int", "valid", "valid")

\* the first dinosaur varies in weight, diet and period; a second one stands by
DinoVariants ==
    { << DinoDoc(1, "Rex", w, dt, pr), GoodDino(2, "Alossauro") >> :
        w \in PesoChoices, dt \in RefKinds, pr \in RefKinds }

\* every list of at most MaxFossils fossils, each owned by dinosaur 1 or 2
FossilLists ==
    UNION { { [j \in 1..n |-> FossilDoc(j, f[j][1], f[j][2])] :
                f \in [1..n -> ({1, 2} \X FossilProfiles)] } : n \in 0..MaxFossils }

\* every list of at most MaxDinos dinosaurs, each with or without a popular name
NamedDinoLists ==
    UNION { { [i \in 1..n |-> GoodDino(i, f[i])] : f \in [1..n -> NameChoices] } :
              n \in 0..MaxDinos }

Stores ==
    (DinoVariants \X {<<>>, StdFossils})
      \cup ({<< GoodDino(1, "Rex"), GoodDino(2, "Alossauro") >>} \X FossilLists)
      \cup (NamedDinoLists \X {<<>>, StdFossils})

----------------------------------------------------------------------------
(* The aggregation pipeline of get_dinosaur_by_id, as the server runs it *)

\* $lookup with localField / foreignField "_id": the documents of coll whose _id
\* equals the local field. An absent local field is treated as null by the
\* server, and no document has a null _id.
Lookup(coll, doc, localField) ==
    IF localField \in DOMAIN doc
    THEN SelectSeq(coll, LAMBDA d : d["_id"] = doc[localField])
    ELSE <<>>

\* $unwind with preserveNullAndEmptyArrays: one document per element of the
\* array, or the document without the field when the array is empty
Unwind(doc, path, matches) ==
    IF Len(matches) = 0
    THEN <<doc>>
    ELSE [i \in 1..Len(matches) |-> (path :> matches[i]) @@ doc]

\* a $lookup stage followed by its $unwind stage
LookupUnwind(docs, coll, localField, as) ==
    Flatten([i \in 1..Len(docs) |-> Unwind(docs[i], as, Lookup(coll, docs[i], localField))])

\* $lookup of the bones of a fossil: foreignField id_fossil equals the fossil's _id
BonesOf(f) ==
    SelectSeq(ossos, LAMBDA o : "id_fossil" \in DOMAIN o /\ o["id_fossil"] = f["_id"])

\* the sub-pipeline over fosseis, with $$dinoId bound to the dinosaur's _id
FossilPipeline(dinoId) ==
    LET matched == SelectSeq(fosseis,
                       LAMBDA f : "id_dinossauro" \in DOMAIN f /\ f["id_dinossauro"] = dinoId)
        withLoc == LookupUnwind(matched, localizacoes, "id_localizacao_descoberta", "loc")
        withDesc == LookupUnwind(withLoc, descobridores, "id_descobridor", "desc")
        withMus == LookupUnwind(withDesc, museus, "id_museu", "mus")
    IN  [i \in 1..Len(withMus) |-> ("lista_ossos_raw" :> BonesOf(withMus[i])) @@ withMus[i]]

\* the pipeline without its $match stage: every Dinosaur goes through the joins
AggregateNoMatch(oid) ==
    LET withDiet == LookupUnwind(dinossauros, tipos_alimentacao, "id_dieta", "dieta_info")
        withPeriod == LookupUnwind(withDiet, periodos_geologicos, "id_periodo", "periodo_info")
    IN  [i \in 1..Len(withPeriod) |->
            ("lista_fosseis" :> FossilPipeline(withPeriod[i]["_id"])) @@ withPeriod[i]]

\* db.dinossauros.aggregate(pipeline)
Aggregate(oid) ==
    LET matched == SelectSeq(dinossauros, LAMBDA d : d["_id"] = oid)
        withDiet == LookupUnwind(matched, tipos_alimentacao, "id_dieta", "dieta_info")
        withPeriod == LookupUnwind(withDiet, periodos_geologicos, "id_periodo", "periodo_info")
    IN  [i \in 1..Len(withPeriod) |->
            ("lista_fosseis" :> FossilPipeline(withPeriod[i]["_id"])) @@ withPeriod[i]]

----------------------------------------------------------------------------
(* Record shaping *)

\* the weight entry of dinosaur_dict: float(data.get("peso_medio_kg", 0))
PesoArg(data) == Get(data, "peso_medio_kg", Int32(0))

\* the museum entry of fossil_dict
ShapeMuseu(f) ==
    [nome |-> Get(Get(f, "mus", EmptyDict), "nome_museu", NoneStr),
     cidade |-> Get(Get(f, "mus", EmptyDict), "cidade_museu", NoneStr),
     pais |-> Get(Get(f, "mus", EmptyDict), "pais_museu", NoneStr)]

\* the local_descoberta entry of fossil_dict
ShapeLocal(f) ==
    [cidade |-> Get(Get(f, "loc", EmptyDict), "cidade", NoneStr),
     estado |-> Get(Get(f, "loc", EmptyDict), "estado", NoneStr),
     pais |-> Get(Get(f, "loc", EmptyDict), "pais", NoneStr)]

\* fossil_dict of one element of lista_fosseis
ShapeFossil(f) ==
    [codigo |-> Get(f, "codigo", NoneStr),
     data_descoberta |->
        IF Get(f, "data_descoberta", NullDate) # NullDate
        THEN Strftime(f["data_descoberta"])
        ELSE "N/A",
     nome_descobridor |-> Get(Get(f, "desc", EmptyDict), "nome_descobridor", Desconhecido),
     local_descoberta |-> ShapeLocal(f),
     museu |-> ShapeMuseu(f),
     ossos |-> [i \in 1..Len(Get(f, "lista_ossos_raw", <<>>)) |->
                   f["lista_ossos_raw"][i]["nome_parte"]]]

\* the fossil list of dinosaur_dict, in the order of lista_fosseis
ShapeFossils(data) ==
    [i \in 1..Len(Get(data, "lista_fosseis", <<>>)) |-> ShapeFossil(data["lista_fosseis"][i])]

\* dinosaur_dict; building it raises TypeError when float() is given None
ShapeDinosaur(data) ==
    IF ~FloatOk(PesoArg(data))
    THEN Raise("TypeError")
    ELSE RetDict(
        [id |-> OidStr(data["_id"]),
         nome_popular |-> Get(data, "nome_popular", NoneStr),
         nome_cientifico |-> Get(data, "nome_cientifico", NoneStr),
         significado_nome |-> Get(data, "significado_nome", NoneStr),
         altura_media_m |-> Get(data, "altura_media_m", NullNum),
         comprimento_medio_m |-> Get(data, "comprimento_medio_m", NullNum),
         peso_medio_kg |-> Float(PesoArg(data)),
         imagem |-> Get(data, "imagem", NoneStr),
         nome_dieta |-> Get(Get(data, "dieta_info", EmptyDict), "nome_dieta", Desconhecido),
         nome_periodo |-> Get(Get(data, "periodo_info", EmptyDict), "nome_periodo", Desconhecido),
         ma_inicio |-> Get(Get(data, "periodo_info", EmptyDict), "ma_inicio", NullNum),
         ma_fim |-> Get(Get(data, "periodo_info", EmptyDict), "ma_fim", NullNum),
         clima |-> Get(Get(data, "periodo_info", EmptyDict), "clima", NoneStr),
         fossil |-> ShapeFossils(data)])

----------------------------------------------------------------------------
(* The two query functions. Each yields the outcome of one call: what it    *)
(* returned or raised, the messages it reported with st.error, and the     *)
(* queries it sent to the store.                                           *)

MsgInvalidId == "ID de Dinossauro inválido."
MsgNoUri == "A variável MONGO_URI não foi encontrada no .env"
MsgNoConnection(e) == "Erro na conexão com MongoDB: " \o e
MsgNoImage == "Sem imagem disponível"
MsgNoFossil == "Nenhum fóssil encontrado para este dinossauro."
MsgNoMap == "Nenhum mapa disponível (sem fósseis)."
MsgNoLocation == "Não foi possível gerar a localização no mapa."
MsgNoDinosaur == "Nenhum dinossauro encontrado."
MsgConnectAndSelect == "Conecte-se ao banco e selecione um dinossauro na barra lateral."
MsgLoadError == "Erro ao carregar dados do dinossauro."

Outcome(out, msgs, queries) == [out |-> out, msgs |-> msgs, queries |-> queries]

\* what a query raises when the server does not answer
StoreError == Raise("PyMongoError")

\* get_dinosaur_by_id with the identifier parsed only where the pipeline is run
get_dinosaur_by_id_QueryFirst(dbv, up, dino_id_str) ==
    IF dbv = "None" THEN Outcome(RetNone, <<>>, <<>>)
    ELSE IF ~up THEN Outcome(StoreError, <<>>, <<"aggregate">>)
    ELSE IF ~ObjectIdValid(dino_id_str) THEN Outcome(RetNone, <<MsgInvalidId>>, <<"aggregate">>)
    ELSE LET resultado == Aggregate(ObjectId(dino_id_str))
         IN  IF Len(resultado) = 0
             THEN Outcome(RetNone, <<>>, <<"aggregate">>)
             ELSE Outcome(ShapeDinosaur(resultado[1]), <<>>, <<"aggregate">>)

\* get_dinosaur_by_id without the test of an empty resultado: resultado[0] raises
get_dinosaur_by_id_NoEmptyCheck(dbv, up, dino_id_str) ==
    IF dbv = "None" THEN Outcome(RetNone, <<>>, <<>>)
    ELSE IF ~ObjectIdValid(dino_id_str) THEN Outcome(RetNone, <<MsgInvalidId>>, <<>>)
    ELSE IF ~up THEN Outcome(StoreError, <<>>, <<"aggregate">>)
    ELSE LET resultado == Aggregate(ObjectId(dino_id_str))
         IN  IF Len(resultado) = 0
             THEN Outcome(Raise("IndexError"), <<>>, <<"aggregate">>)
             ELSE Outcome(ShapeDinosaur(resultado[1]), <<>>, <<"aggregate">>)

\* get_dinosaur_by_id, with the global db and the state of the server as
\* parameters: dbv is db, up is TRUE when the server answers the query
get_dinosaur_by_id(dbv, up, dino_id_str) ==
    IF dbv = "None" THEN Outcome(RetNone, <<>>, <<>>)
    ELSE IF ~ObjectIdValid(dino_id_str) THEN Outcome(RetNone, <<MsgInvalidId>>, <<>>)
    ELSE IF ~up THEN Outcome(StoreError, <<>>, <<"aggregate">>)
    ELSE LET resultado == Aggregate(ObjectId(dino_id_str))
         IN  IF Len(resultado) = 0
             THEN Outcome(RetNone, <<>>, <<"aggregate">>)
             ELSE Outcome(ShapeDinosaur(resultado[1]), <<>>, <<"aggregate">>)

\* rank of a popular name in ascending string order
NameRank(name) == CHOOSE i \in 1..Len(Names) : Names[i] = name

\* the key of a sort made after the default name is filled in
SortKeyAfterDefault(doc) == NameRank(Get(doc, "nome_popular", Desconhecido))

\* the key sort("nome_popular", 1) orders by: a missing field sorts as null,
\* before every string
SortKey(doc) == IF "nome_popular" \in DOMAIN doc THEN NameRank(doc["nome_popular"]) ELSE 0

\* the orders in which find().sort() may return the documents: ascending by
\* key, documents with equal keys in any order
SortOrders ==
    { p \in [1..Len(dinossauros) -> 1..Len(dinossauros)] :
        /\ \A i, j \in 1..Len(dinossauros) : i # j => p[i] # p[j]
        /\ \A i, j \in 1..Len(dinossauros) :
              i < j => SortKey(dinossauros[p[i]]) <= SortKey(dinossauros[p[j]]) }

\* one entry of lista_dinos
NameEntry(doc) ==
    [id_dinossauro |-> OidStr(doc["_id"]),
     nome_popular |-> Get(doc, "nome_popular", Desconhecido)]

get_dinosaur_names(order) ==
    IF db = "None" THEN Outcome(RetList(<<>>), <<>>, <<>>)
    ELSE IF ~reachable THEN Outcome(StoreError, <<>>, <<"find">>)
    ELSE Outcome(RetList([i \in 1..Len(order) |-> NameEntry(dinossauros[order[i]])]),
                 <<>>, <<"find">>)

----------------------------------------------------------------------------
(* The sidebar selector *)

RetStr(x) == [kind |-> "str", str |-> x]

\* a dictionary in which the first entry with a name is the one kept
DinoDictFirstWins(dinos) ==
    [name \in {dinos[i].nome_popular : i \in 1..Len(dinos)} |->
        LET k == CHOOSE i \in 1..Len(dinos) :
                     /\ dinos[i].nome_popular = name
                     /\ \A j \in 1..Len(dinos) : dinos[j].nome_popular = name => i <= j
        IN  dinos[k].id_dinossauro]

\* {d["nome_popular"]: d["id_dinossauro"] for d in dinos}: a later entry with
\* the same name replaces an earlier one
DinoDict(dinos) ==
    [name \in {dinos[i].nome_popular : i \in 1..Len(dinos)} |->
        LET k == CHOOSE i \in 1..Len(dinos) :
                     /\ dinos[i].nome_popular = name
                     /\ \A j \in 1..Len(dinos) : dinos[j].nome_popular = name => j <= i
        IN  dinos[k].id_dinossauro]

\* sorted(dino_dict.keys())
SortedNames(keys) == SelectSeq(Names, LAMBDA n : n \in keys)

NoSelector == [called |-> FALSE]

\* create_dinosaur_selector, given what get_dinosaur_names returned and the
\* option the user picks in the selectbox
create_dinosaur_selector(dinos, selected_name) ==
    IF Len(dinos) = 0
    THEN [called |-> TRUE, dinos |-> dinos, sorted_names |-> <<>>,
          selected_name |-> NoneStr, msgs |-> <<MsgNoDinosaur>>, out |-> RetNone]
    ELSE [called |-> TRUE, dinos |-> dinos,
          sorted_names |-> SortedNames(DOMAIN DinoDict(dinos)),
          selected_name |-> selected_name, msgs |-> <<>>,
          out |-> RetStr(DinoDict(dinos)[selected_name])]

\* the options the selectbox offers for a name index
Options(dinos) ==
    IF Len(dinos) = 0 THEN {NoneStr}
    ELSE {SortedNames(DOMAIN DinoDict(dinos))[i] :
              i \in 1..Len(SortedNames(DOMAIN DinoDict(dinos)))}

\* Python truthiness of main's dinosaur_id: None and "" are false
Truthy(ret) == ret.kind = "str" /\ Len(ret.str) > 0

\* Python truthiness of a text field of the record: None and "" are false
TruthyStr(x) == x # NoneStr /\ Len(x) > 0

maior_peso == 80000

\* the data frame of plot_peso_comparativo: two bars, the dinosaur's weight and
\* the record weight
plot_peso_comparativo(dino) ==
    [peso |-> <<dino.peso_medio_kg, Int32(maior_peso)>>,
     categoria |-> <<dino.nome_popular, "Maior Peso Já Registrado">>]

\* what geolocator.geocode does with an address: it finds a place, finds
\* nothing, or raises (network failure, timeout)
GeoOutcomes == {"found", "none", "error"}

\* the fossils main geocodes: those whose city and country are both truthy
Located(dino) ==
    {i \in 1..Len(dino.fossil) :
        /\ TruthyStr(dino.fossil[i].local_descoberta.cidade)
        /\ TruthyStr(dino.fossil[i].local_descoberta.pais)}

LocatedSeq(dino) ==
    SelectSeq([i \in 1..Len(dino.fossil) |-> i], LAMBDA i : i \in Located(dino))

NoPage ==
    [drawn |-> FALSE, chart |-> <<>>, geocoded |-> <<>>, markers |-> <<>>,
     geo_errors |-> 0, map_shown |-> FALSE]

\* main, lines 250-312: the st.warning and st.info texts it writes, in order
DrawMsgs(dino) ==
    (IF TruthyStr(dino.imagem) THEN <<>> ELSE <<MsgNoImage>>)
    \o (IF Len(dino.fossil) = 0 THEN <<MsgNoFossil, MsgNoMap>> ELSE <<>>)

\* the page once main has drawn the columns, the chart and the tabs
Draw(dino) == [NoPage EXCEPT !.drawn = TRUE, !.chart = <<plot_peso_comparativo(dino)>>]

\* one pass of the loop body for the next located fossil, given what
\* geolocator.geocode did with its address
Geocode(pg, dino, outcome) ==
    LET i == LocatedSeq(dino)[Len(pg.geocoded) + 1]
        local == dino.fossil[i].local_descoberta
    IN  [pg EXCEPT
            !.geocoded = Append(@, local.cidade \o ", " \o local.pais),
            !.markers = IF outcome = "found"
                        THEN Append(@, "Fóssil " \o dino.fossil[i].codigo)
                        ELSE @,
            !.geo_errors = IF outcome = "error" THEN @ + 1 ELSE @]

\* every located fossil has been geocoded
GeocodingDone(pg, dino) == Len(pg.geocoded) = Len(LocatedSeq(dino))

\* found_location: some geocode call found a place
found_location(pg) == Len(pg.markers) > 0

\* main, lines 340-351: the map is shown, or the warning written
MapMsgs(pg) == IF found_location(pg) THEN <<>> ELSE <<MsgNoLocation>>
ShowMap(pg) == [pg EXCEPT !.map_shown = found_location(pg)]

----------------------------------------------------------------------------
(* State machine *)

CallRecord(op, arg, call) ==
    [op |-> op, arg |-> arg, out |-> call.out, msgs |-> call.msgs, queries |-> call.queries]

NoCall == [op |-> "none", arg |-> <<>>, out |-> RetNone, msgs |-> <<>>, queries |-> <<>>]

\* the messages of init_connection, which st.cache_resource replays in every run
\* what MongoClient, the ping and client[db_name] raise, as text
ErrInvalidUri == "Invalid URI scheme: URI must begin with 'mongodb://' or 'mongodb+srv://'"
ErrNoServer == "No servers found yet"
ErrNameNotStr == "name must be an instance of str"
ErrEmptyName == "database name cannot be the empty string"
ConnectErrors == {ErrInvalidUri, ErrNoServer, ErrNameNotStr, ErrEmptyName}

\* the settings of MONGO_URI and of DB_NAME
UriSettings == {"unset", "empty", "invalid", "valid"}
NameSettings == {"unset", "empty", "set"}

\* init_connection: the handle or None, and the message reported
init_connection(uri, db_name, up) ==
    IF uri \in {"unset", "empty"} THEN [db |-> "None", msgs |-> <<MsgNoUri>>]
    ELSE IF uri = "invalid" THEN [db |-> "None", msgs |-> <<MsgNoConnection(ErrInvalidUri)>>]
    ELSE IF ~up THEN [db |-> "None", msgs |-> <<MsgNoConnection(ErrNoServer)>>]
    ELSE IF db_name = "unset" THEN [db |-> "None", msgs |-> <<MsgNoConnection(ErrNameNotStr)>>]
    ELSE IF db_name = "empty" THEN [db |-> "None", msgs |-> <<MsgNoConnection(ErrEmptyName)>>]
    ELSE [db |-> "handle", msgs |-> <<>>]

InitMessages == {MsgNoUri} \cup {MsgNoConnection(e) : e \in ConnectErrors}

Init ==
    /\ \E store \in Stores : dinossauros = store[1] /\ fosseis = store[2]
    /\ reachable \in BOOLEAN
    /\ db = "unset"
    /\ pc = "start"
    /\ dinosaur_id = RetNone
    /\ dinosaur = RetNone
    /\ selector = NoSelector
    /\ last = NoCall
    /\ screen = <<>>
    /\ page = NoPage

\* db = init_connection(), run once when the script is first loaded
InitConnection ==
    /\ db = "unset"
    /\ \E uri \in UriSettings, db_name \in NameSettings :
          LET conn == init_connection(uri, db_name, reachable)
          IN  db' = conn.db /\ screen' = screen \o conn.msgs
    /\ UNCHANGED <<dinossauros, fosseis, reachable, pc, page, dinosaur_id, dinosaur, selector, last>>

\* the server stops answering
StoreDown ==
    /\ reachable
    /\ reachable' = FALSE
    /\ UNCHANGED <<dinossauros, fosseis, db, pc, page, dinosaur_id, dinosaur, selector, last, screen>>

\* the server answers again
StoreUp ==
    /\ ~reachable
    /\ reachable' = TRUE
    /\ UNCHANGED <<dinossauros, fosseis, db, pc, page, dinosaur_id, dinosaur, selector, last, screen>>

\* a run that calls get_dinosaur_names() itself, instead of main
CallGetDinosaurNames ==
    /\ db # "unset"
    /\ pc = "start"
    /\ pc' = "called"
    /\ \E order \in SortOrders :
          last' = CallRecord("get_dinosaur_names", <<>>, get_dinosaur_names(order))
    /\ UNCHANGED <<dinossauros, fosseis, reachable, db, page, dinosaur_id, dinosaur, selector, screen>>

\* a run that calls get_dinosaur_by_id(s) itself, with any identifier string
CallGetDinosaurById ==
    /\ db # "unset"
    /\ pc = "start"
    /\ pc' = "called"
    /\ \E s \in IdStrings :
          LET call == get_dinosaur_by_id(db, reachable, s)
          IN  /\ last' = CallRecord("get_dinosaur_by_id", s, call)
              /\ screen' = screen \o call.msgs
    /\ UNCHANGED <<dinossauros, fosseis, reachable, db, page, dinosaur_id, dinosaur, selector>>

\* main, first part: dinosaur_id = create_dinosaur_selector() and the check of it
MainSelect ==
    /\ db # "unset"
    /\ pc = "start"
    /\ \E order \in SortOrders :
          LET call == get_dinosaur_names(order)
          IN  /\ last' = CallRecord("get_dinosaur_names", <<>>, call)
              /\ IF call.out.kind = "raise"
                 THEN /\ pc' = "crashed"
                      /\ UNCHANGED <<dinosaur_id, selector, screen>>
                 ELSE \E selected_name \in Options(call.out.list) :
                        LET sel == create_dinosaur_selector(call.out.list, selected_name)
                        IN  /\ selector' = sel
                            /\ dinosaur_id' = sel.out
                            /\ IF Truthy(sel.out)
                               THEN pc' = "selected" /\ screen' = screen \o sel.msgs
                               ELSE /\ pc' = "stopped"
                                    /\ screen' = screen \o sel.msgs \o <<MsgConnectAndSelect>>
    /\ UNCHANGED <<dinossauros, fosseis, reachable, db, page, dinosaur>>

\* main, second part: dinosaur = get_dinosaur_by_id(dinosaur_id), the check of
\* it, and the drawing of the record up to the first geocode call; without a
\* located fossil main runs to its end
MainHydrate ==
    /\ pc = "selected"
    /\ LET call == get_dinosaur_by_id(db, reachable, dinosaur_id.str)
       IN  /\ last' = CallRecord("get_dinosaur_by_id", dinosaur_id.str, call)
           /\ dinosaur' = call.out
           /\ IF call.out.kind = "raise"
              THEN /\ pc' = "crashed"
                   /\ screen' = screen \o call.msgs
                   /\ UNCHANGED page
              ELSE IF call.out.kind = "None"
                   THEN /\ pc' = "stopped"
                        /\ screen' = screen \o call.msgs \o <<MsgLoadError>>
                        /\ UNCHANGED page
                   ELSE IF Len(call.out.dict.fossil) = 0
                   THEN /\ pc' = "rendered"
                        /\ screen' = screen \o call.msgs \o DrawMsgs(call.out.dict)
                        /\ page' = Draw(call.out.dict)
                   ELSE IF GeocodingDone(Draw(call.out.dict), call.out.dict)
                   THEN /\ pc' = "rendered"
                        /\ screen' = screen \o call.msgs \o DrawMsgs(call.out.dict)
                                         \o MapMsgs(Draw(call.out.dict))
                        /\ page' = ShowMap(Draw(call.out.dict))
                   ELSE /\ pc' = "geocoding"
                        /\ screen' = screen \o call.msgs \o DrawMsgs(call.out.dict)
                        /\ page' = Draw(call.out.dict)
    /\ UNCHANGED <<dinossauros, fosseis, reachable, db, dinosaur_id, selector>>

\* main, the loop of lines 318-338: one geolocator.geocode call returns; after
\* the last one main shows the map or writes the warning (lines 340-351)
MainGeocode ==
    /\ pc = "geocoding"
    /\ \E outcome \in GeoOutcomes :
          LET pg == Geocode(page, dinosaur.dict, outcome)
          IN  IF GeocodingDone(pg, dinosaur.dict)
              THEN /\ pc' = "rendered"
                   /\ page' = ShowMap(pg)
                   /\ screen' = screen \o MapMsgs(pg)
              ELSE /\ pc' = "geocoding"
                   /\ page' = pg
                   /\ UNCHANGED screen
    /\ UNCHANGED <<dinossauros, fosseis, reachable, db, dinosaur_id, dinosaur, selector, last>>

\* the user interacts with the page and the script runs again, also while a run
\* waits for the store or for the geocoder; db is cached
Rerun ==
    /\ pc \in {"called", "selected", "geocoding", "rendered", "stopped", "crashed"}
    /\ pc' = "start"
    /\ dinosaur_id' = RetNone
    /\ dinosaur' = RetNone
    /\ selector' = NoSelector
    /\ last' = NoCall
    /\ screen' = SelectSeq(screen, LAMBDA m : m \in InitMessages)
    /\ page' = NoPage
    /\ UNCHANGED <<dinossauros, fosseis, reachable, db>>

Next ==
    \/ InitConnection
    \/ StoreDown
    \/ StoreUp
    \/ CallGetDinosaurNames
    \/ CallGetDinosaurById
    \/ MainSelect
    \/ MainHydrate
    \/ MainGeocode
    \/ Rerun

Spec == Init /\ [][Next]_vars

----------------------------------------------------------------------------
(* Properties *)

ByIdCall == last.op = "get_dinosaur_by_id"
NamesCall == last.op = "get_dinosaur_names"

\* what a caller observes of a call: the kind of value returned (or that it
\* raised) and the messages reported
Signature(call) == <<call.out.kind, call.msgs>>

\* the last call was get_dinosaur_by_id and the store answered its aggregate
Answered ==
    /\ ByIdCall
    /\ ObjectIdValid(last.arg)
    /\ last.queries = <<"aggregate">>
    /\ last.out # StoreError

\* the documents of dinossauros the supplied identifier identifies
MatchedDocs == SelectSeq(dinossauros, LAMBDA d : d["_id"] = ObjectId(last.arg))

Matched == Answered /\ Len(MatchedDocs) > 0
NotFound == Answered /\ Len(MatchedDocs) = 0

\* C1 (as claimed): whenever get_dinosaur_by_id is given a string that does not
\* parse as an ObjectId, it reports "invalid identifier", returns None and has
\* sent no query to the store.
C1_InvalidIdAlwaysReported ==
    (ByIdCall /\ ~ObjectIdValid(last.arg)) =>
        /\ last.msgs = <<MsgInvalidId>>
        /\ last.out = RetNone
        /\ last.queries = <<>>

\* C1 (amended): given a string that does not parse as an ObjectId,
\* get_dinosaur_by_id returns None without sending a query; it reports "invalid
\* identifier" exactly when db is a handle (with db None it returns before
\* parsing and reports nothing); and no call that reports "invalid identifier"
\* has sent a query.
C1_InvalidIdNoQuery ==
    /\ (ByIdCall /\ ~ObjectIdValid(last.arg)) =>
          /\ last.out = RetNone
          /\ last.queries = <<>>
          /\ (db = "handle" => last.msgs = <<MsgInvalidId>>)
          /\ (db = "None" => last.msgs = <<>>)
    /\ (ByIdCall /\ \E i \in 1..Len(last.msgs) : last.msgs[i] = MsgInvalidId) =>
          last.queries = <<>>

C1_Witness ==
    /\ ByIdCall
    /\ last.arg = NotAnId
    /\ db = "handle"
    /\ last.msgs = <<MsgInvalidId>>
    /\ last.queries = <<>>

\* C2 (as claimed): the outcome of a well-formed identifier that matches no
\* Dinosaur differs from the outcome of an invalid identifier, from the outcome
\* of a connectivity failure (at startup, db None, or at query time) and from a
\* populated record.
C2_NotFoundDistinct ==
    NotFound =>
        /\ \A s \in IdStrings :
              Signature(last) # Signature(get_dinosaur_by_id("None", TRUE, s))
        /\ \A s \in IdStrings :
              Signature(last) # Signature(get_dinosaur_by_id("None", FALSE, s))
        /\ \A s \in IdStrings :
              ObjectIdValid(s) =>
                  Signature(last) # Signature(get_dinosaur_by_id("handle", FALSE, s))
        /\ \A s \in IdStrings :
              ~ObjectIdValid(s) =>
                  Signature(last) # Signature(get_dinosaur_by_id("handle", TRUE, s))
        /\ last.out.kind # "dict"

\* C2 (amended): for a well-formed identifier that matches no Dinosaur,
\* get_dinosaur_by_id returns None and reports no message; that outcome differs
\* from the one of an invalid identifier (None with the message), from a failure
\* at query time (an exception) and from a populated record, and it is the same
\* as the outcome of any call made while db is None.
C2_NotFoundSilentNone ==
    NotFound =>
        /\ last.out = RetNone
        /\ last.msgs = <<>>
        /\ \A s \in IdStrings :
              ~ObjectIdValid(s) =>
                  Signature(last) # Signature(get_dinosaur_by_id("handle", TRUE, s))
        /\ \A s \in IdStrings :
              ObjectIdValid(s) =>
                  Signature(last) # Signature(get_dinosaur_by_id("handle", FALSE, s))
        /\ \A s \in IdStrings :
              get_dinosaur_by_id("handle", TRUE, s).out.kind = "dict" =>
                  Signature(last) # Signature(get_dinosaur_by_id("handle", TRUE, s))
        /\ \A s \in IdStrings : \A up \in BOOLEAN :
              Signature(last) = Signature(get_dinosaur_by_id("None", up, s))

C2_Witness ==
    /\ NotFound
    /\ last.arg = Pad(<<"f", "F">>)
    /\ Len(dinossauros) > 0
    /\ last.out = RetNone

\* C3: when the store is unreachable, at startup or at query time,
\* get_dinosaur_names returns the empty list and get_dinosaur_by_id returns None;
\* neither raises to its caller.
C3_UnreachableNeverRaises ==
    /\ NamesCall => last.out.kind = "list"
    /\ ByIdCall => last.out # StoreError
    /\ (NamesCall /\ db = "None") => last.out = RetList(<<>>)
    /\ (ByIdCall /\ db = "None") => last.out = RetNone

\* the reference field of doc is absent, or no document of coll has that _id
NoRef(doc, field, coll) ==
    \/ field \notin DOMAIN doc
    \/ \A i \in 1..Len(coll) : coll[i]["_id"] # doc[field]

\* the fossils whose dinosaur reference is oid, in the order the store keeps them
OwnFossils(oid) ==
    SelectSeq(fosseis, LAMBDA f : "id_dinossauro" \in DOMAIN f /\ f["id_dinossauro"] = oid)

Codes(fs) == [i \in 1..Len(fs) |-> fs[i].codigo]

\* C4: in a shaped record, a fossil whose museum reference is absent or dangling
\* has museum name "Desconhecido", and one whose location reference is absent or
\* dangling has city, state and country "Desconhecido".
C4_MissingLinkIsUnknown ==
    (Matched /\ last.out.kind = "dict") =>
        \A i \in 1..Len(last.out.dict.fossil) : \A j \in 1..Len(fosseis) :
            fosseis[j]["codigo"] = last.out.dict.fossil[i].codigo =>
                /\ NoRef(fosseis[j], "id_museu", museus) =>
                      last.out.dict.fossil[i].museu.nome = Desconhecido
                /\ NoRef(fosseis[j], "id_localizacao_descoberta", localizacoes) =>
                      /\ last.out.dict.fossil[i].local_descoberta.cidade = Desconhecido
                      /\ last.out.dict.fossil[i].local_descoberta.estado = Desconhecido
                      /\ last.out.dict.fossil[i].local_descoberta.pais = Desconhecido

\* C5: for an existing Dinosaur whose diet (period) reference is absent or
\* dangling, get_dinosaur_by_id returns a populated record whose nome_dieta
\* (nome_periodo) is "Desconhecido".
C5_LeftJoinAlwaysPopulated ==
    Matched =>
        /\ NoRef(MatchedDocs[1], "id_dieta", tipos_alimentacao) =>
              /\ last.out.kind = "dict"
              /\ last.out.dict.nome_dieta = Desconhecido
        /\ NoRef(MatchedDocs[1], "id_periodo", periodos_geologicos) =>
              /\ last.out.kind = "dict"
              /\ last.out.dict.nome_periodo = Desconhecido

\* C6: for an existing Dinosaur, get_dinosaur_by_id returns a record whose fossil
\* list has one entry per Fossil that refers to the Dinosaur, in the order of the
\* store; with no such Fossil the list is empty.
C6_FossilListExact ==
    Matched =>
        /\ last.out.kind = "dict"
        /\ Codes(last.out.dict.fossil) = Codes(OwnFossils(MatchedDocs[1]["_id"]))

\* the number a stored weight stands for, 0 when none is stored
StoredWeight(doc) ==
    IF "peso_medio_kg" \in DOMAIN doc /\ doc["peso_medio_kg"].t # "null"
    THEN doc["peso_medio_kg"].v
    ELSE 0

\* C7: for an existing Dinosaur, get_dinosaur_by_id returns a record whose
\* peso_medio_kg is a float: the stored weight, or 0.0 when the field is missing
\* or holds no value.
C7_WeightNumeric ==
    Matched =>
        /\ last.out.kind = "dict"
        /\ last.out.dict.peso_medio_kg = Double(StoredWeight(MatchedDocs[1]))

NamesAnswered == NamesCall /\ last.queries = <<"find">> /\ last.out.kind = "list"

HasName(doc) == "nome_popular" \in DOMAIN doc

\* the Dinosaur an entry of the name index stands for
DocOfEntry(e) ==
    dinossauros[CHOOSE k \in 1..Len(dinossauros) : OidStr(dinossauros[k]["_id"]) = e.id_dinossauro]

\* one entry per Dinosaur, no identifier twice
OneEntryPerDinosaur(list) ==
    /\ Len(list) = Len(dinossauros)
    /\ \A k \in 1..Len(dinossauros) :
          \E i \in 1..Len(list) : list[i].id_dinossauro = OidStr(dinossauros[k]["_id"])
    /\ \A i, j \in 1..Len(list) : i # j => list[i].id_dinossauro # list[j].id_dinossauro

\* C8 (as claimed): get_dinosaur_names returns one pair per Dinosaur, no
\* identifier twice, ordered by display name ascending, a Dinosaur without a
\* popular name being listed under "Desconhecido".
C8_SortedByDisplayName ==
    NamesAnswered =>
        /\ OneEntryPerDinosaur(last.out.list)
        /\ \A i, j \in 1..Len(last.out.list) :
              i < j => NameRank(last.out.list[i].nome_popular)
                          <= NameRank(last.out.list[j].nome_popular)

\* C8 (amended): get_dinosaur_names returns one pair per Dinosaur, no identifier
\* twice, a Dinosaur without a popular name being listed under "Desconhecido";
\* the pairs of the Dinosaurs without a popular name come first, and the others
\* follow ordered by popular name ascending.
C8_SortedByStoredName ==
    NamesAnswered =>
        /\ OneEntryPerDinosaur(last.out.list)
        /\ \A i \in 1..Len(last.out.list) :
              last.out.list[i].nome_popular =
                  IF HasName(DocOfEntry(last.out.list[i]))
                  THEN DocOfEntry(last.out.list[i])["nome_popular"]
                  ELSE Desconhecido
        /\ \A i, j \in 1..Len(last.out.list) :
              i < j =>
                  \/ ~HasName(DocOfEntry(last.out.list[i]))
                  \/ /\ HasName(DocOfEntry(last.out.list[j]))
                     /\ NameRank(last.out.list[i].nome_popular)
                           <= NameRank(last.out.list[j].nome_popular)

C8_Witness ==
    /\ NamesAnswered
    /\ Len(last.out.list) = 2
    /\ ~HasName(DocOfEntry(last.out.list[1]))
    /\ last.out.list[1].nome_popular = Desconhecido
    /\ last.out.list[2].nome_popular = "Alossauro"

LowerCase(s) == [i \in 1..Len(s) |-> ToLower(s[i])]

\* C9 (as claimed): a record returned for a valid identifier string of a present
\* Dinosaur has an id equal to the string supplied.
C9_IdRoundTrip ==
    (Matched /\ last.out.kind = "dict") => last.out.dict.id = last.arg

\* C9 (amended): a record get_dinosaur_by_id returns is the record of the
\* Dinosaur the supplied string identifies, and its id is the supplied string
\* in lower case: equal to the supplied string when that has no upper-case digit.
C9_IdIsLowerCase ==
    (ByIdCall /\ last.out.kind = "dict") =>
        /\ Matched
        /\ last.out.dict.id = LowerCase(last.arg)
        /\ ObjectId(last.out.dict.id) = MatchedDocs[1]["_id"]
        /\ last.out.dict.nome_popular = Get(MatchedDocs[1], "nome_popular", NoneStr)
        /\ (LowerCase(last.arg) = last.arg => last.out.dict.id = last.arg)

C9_Witness ==
    /\ ByIdCall
    /\ last.out.kind = "dict"
    /\ last.arg = Pad(<<"0", "B">>)
    /\ last.out.dict.id = Pad(<<"0", "b">>)
    /\ Len(dinossauros) > 1

\* C10: create_dinosaur_selector returns None exactly when the name index is
\* empty; otherwise it returns the identifier of the last entry of the name index
\* whose display name is the selected one, every display name is offered once,
\* and main calls get_dinosaur_by_id with that identifier only.
C10_SelectorLastWins ==
    selector.called =>
        /\ selector.out = RetNone <=> Len(selector.dinos) = 0
        /\ \A i, j \in 1..Len(selector.sorted_names) :
              i # j => selector.sorted_names[i] # selector.sorted_names[j]
        /\ \A i \in 1..Len(selector.dinos) :
              \E k \in 1..Len(selector.sorted_names) :
                  selector.sorted_names[k] = selector.dinos[i].nome_popular
        /\ selector.out # RetNone =>
              \E i \in 1..Len(selector.dinos) :
                  /\ selector.dinos[i].id_dinossauro = selector.out.str
                  /\ selector.dinos[i].nome_popular = selector.selected_name
                  /\ \A j \in 1..Len(selector.dinos) :
                        selector.dinos[j].nome_popular = selector.selected_name => j <= i
        /\ dinosaur_id = selector.out
        /\ selector.out = RetNone => (pc = "stopped" /\ ~ByIdCall)
        /\ ByIdCall => (selector.out # RetNone /\ last.arg = selector.out.str)

C10_Witness ==
    /\ selector.called
    /\ pc = "rendered"
    /\ Len(selector.dinos) = 2
    /\ selector.dinos[1].nome_popular = selector.dinos[2].nome_popular
    /\ last.arg = selector.dinos[2].id_dinossauro
    /\ last.out.kind = "dict"

----------------------------------------------------------------------------
(* What holds of C5, C6 and C7 apart from the failure of float(None) *)

\* the hydration of an existing Dinosaur fails only with the TypeError of
\* float(None), and only when the stored weight is null
OnlyNullWeightFails ==
    (Matched /\ last.out.kind # "dict") =>
        /\ last.out = Raise("TypeError")
        /\ "peso_medio_kg" \in DOMAIN MatchedDocs[1]
        /\ MatchedDocs[1]["peso_medio_kg"] = NullNum

\* C5, for the records that are returned
LeftJoinWhenShaped ==
    (Matched /\ last.out.kind = "dict") =>
        /\ NoRef(MatchedDocs[1], "id_dieta", tipos_alimentacao) =>
              last.out.dict.nome_dieta = Desconhecido
        /\ NoRef(MatchedDocs[1], "id_periodo", periodos_geologicos) =>
              last.out.dict.nome_periodo = Desconhecido

\* C6, for the records that are returned
FossilListWhenShaped ==
    (Matched /\ last.out.kind = "dict") =>
        Codes(last.out.dict.fossil) = Codes(OwnFossils(MatchedDocs[1]["_id"]))

\* C7, for the records that are returned
WeightWhenShaped ==
    (Matched /\ last.out.kind = "dict") =>
        last.out.dict.peso_medio_kg = Double(StoredWeight(MatchedDocs[1]))

====
